---- MODULE Spec2Model ----
(***************************************************************************)
(* Model of src/main.py: the population-within-a-radius pipeline.          *)
(*                                                                         *)
(* Numbers.  Python floats are modelled in fixed point, in 32-bit range:   *)
(*   angles in degrees      : hundredths of a degree  (43.53 deg = 4353)   *)
(*   angles in radians,                                                    *)
(*   sines, cosines, "a"    : ten-thousandths         (1.0 = S = 10000)    *)
(*   distances and radius   : hundredths of a mile    (2.03 mi = 203)      *)
(* Every division rounds to nearest (RDiv), as a float division does up to *)
(* the resolution.  sin, cos, sqrt and atan2 are computed numerically      *)
(* (Taylor series, integer square root, half-angle reduction).             *)
(*                                                                         *)
(* Latitudes of the model stay away from the poles: there the float        *)
(* cos(radians(90.0)) is 6.1e-17, not 0, which fixed point cannot hold.    *)
(***************************************************************************)
EXTENDS Integers, Sequences, FiniteSets, TLC

VARIABLES
    args,             \* argparse result: [lat, lon, radius], each Arg(x) or NoArg
    api_key,          \* os.getenv('CENSUS_API_KEY'): a key or NoKey
    step,             \* the step parameter of generate_points_within_radius
    pc,               \* position of run()
    latitude, longitude, radius,   \* locals of run()
    lat, lon,         \* loop variables of generate_points_within_radius
    dist,             \* last haversine evaluation: [lat, lon, d] or NoDist
    points,           \* the list generate_points_within_radius builds
    idx,              \* 1-based position of the for loop over points
    attempt,          \* attempts made so far by the retried call in progress
    block_fips_set,   \* the set of get_unique_blocks_within_radius
    block_fips_list,  \* list(block_fips_set), as run() holds it
    k,                \* 1-based position of the for loop over block_fips_list
    total_population, \* accumulator of run()
    stdout,           \* the lines printed
    error,            \* the exception that ended run(), or NoError
    last_query,       \* params of the last request sent to the statistics service
    last_call,        \* history: the last attempt of a retried call
    exhausted,        \* history: the retried functions that ran out of attempts
    pop_log           \* history: <<identifier, population>> of every parsed reply

vars == <<args, api_key, step, pc, latitude, longitude, radius, lat, lon, dist,
          points, idx, attempt, block_fips_set, block_fips_list, k,
          total_population, stdout, error, last_query, last_call, exhausted,
          pop_log>>

----------------------------------------------------------------------------
(* Fixed-point arithmetic                                                  *)

S == 10 * 1000

\* math.pi, in ten-thousandths
PI == 31416

\* number of the last Taylor term of sin and cos
LastTerm == 24

\* a / b rounded to nearest, b > 0
RDiv(a, b) == (a + (b \div 2)) \div b

MulS(a, b) == RDiv(a * b, S)

\* math.radians: hundredths of a degree to ten-thousandths of a radian
radians(x) == RDiv(x * PI, 18000)

\* The numerical routines are functions, not operators: a function is applied
\* to the value of its argument, which keeps their evaluation linear.

\* an angle brought into [-PI, PI]
Wrap[x \in Int] ==
    IF x > PI THEN Wrap[x - 2 * PI]
    ELSE IF x < -PI THEN Wrap[x + 2 * PI]
    ELSE x

\* the Taylor series of sin and cos from the term numbered n on; term is the
\* term before it, acc the sum so far
Series[term \in Int, x \in Int, n \in Nat, acc \in Int] ==
    IF n > LastTerm \/ term = 0 THEN acc
    ELSE LET t == -RDiv(MulS(RDiv(MulS(term, x), n), x), n + 1)
         IN  Series[t, x, n + 2, acc + t]

SinOf[x \in Int] == Series[Wrap[x], Wrap[x], 2, Wrap[x]]

CosOf[x \in Int] == Series[S, Wrap[x], 1, S]

\* math.sin, math.cos
sin(x) == SinOf[x]
cos(x) == CosOf[x]

\* the integer square root of n, by bisection of lo..hi
ISqrt[n \in Nat, lo \in Nat, hi \in Nat] ==
    IF lo >= hi THEN lo
    ELSE LET mid == (lo + hi + 1) \div 2
         IN  IF mid * mid <= n THEN ISqrt[n, mid, hi] ELSE ISqrt[n, lo, mid - 1]

\* math.sqrt of a value in [0, 2]
sqrt(a) == ISqrt[a * S, 0, 46340]

AtanSmall[t \in Nat] ==
    LET t2 == MulS(t, t)
        t3 == MulS(t, t2)
        t5 == MulS(t3, t2)
        t7 == MulS(t5, t2)
    IN  t - RDiv(t3, 3) + RDiv(t5, 5) - RDiv(t7, 7)

\* tan of half the angle whose tan is t
HalfTan[t \in Nat] == RDiv(t * S, S + sqrt(S + MulS(t, t)))

\* atan of t in [0, 1]
Atan[t \in Nat] == 4 * AtanSmall[HalfTan[HalfTan[t]]]

Atan2Of[y \in Nat, x \in Nat] ==
    IF y = 0 THEN 0
    ELSE IF y <= x THEN Atan[RDiv(y * S, x)]
    ELSE (PI \div 2) - (IF x = 0 THEN 0 ELSE Atan[RDiv(x * S, y)])

\* math.atan2 for y >= 0, x >= 0
atan2(y, x) == Atan2Of[y, x]

----------------------------------------------------------------------------
(* Geodesy                                                                 *)

\* Earth radius, 3958.8 miles, in tenths of a mile
R == 39588

\* the haversine term a of haversine_distance, as the source writes it
haversine_a(lat1, lon1, lat2, lon2) ==
    LET phi1    == radians(lat1)
        phi2    == radians(lat2)
        dphi    == radians(lat2 - lat1)
        dlambda == radians(lon2 - lon1)
        s1      == sin(RDiv(dphi, 2))
        s2      == sin(RDiv(dlambda, 2))
    IN  MulS(s1, s1) + MulS(cos(phi1), cos(phi2)) + MulS(s2, s2)

\* math.sqrt(a) or math.sqrt(1 - a) raises ValueError("math domain error")
MathDomainError(a) == a < 0 \/ a > S

\* haversine_distance, in hundredths of a mile, where it raises nothing
haversine_distance(lat1, lon1, lat2, lon2) ==
    LET a == haversine_a(lat1, lon1, lat2, lon2)
        c == 2 * atan2(sqrt(a), sqrt(S - a))
    IN  RDiv(R * c, 1000)

----------------------------------------------------------------------------
(* Values                                                                  *)

\* an argparse value: None when the option is absent
NoArg == [given |-> FALSE, v |-> 0]
Arg(x) == [given |-> TRUE, v |-> x]
NoKey == "None"
NoError == "None"
NoDist == [lat |-> 0, lon |-> 0, d |-> -1]
NoQuery == [get |-> "None"]
NoCall == [fn |-> "None", attempts |-> 0, ok |-> TRUE, value |-> <<>>]

\* defaults of run()
COORDINATE_LATITUDE == 4353
COORDINATE_LONGITUDE == -11615
RADIUS == 203

\* 1 degree of latitude ~ 69 miles
MILES_PER_DEGREE == 69

\* step=0.01, the default of generate_points_within_radius
DefaultStep == 1

\* a coarse step (10 degrees), for lattices of a few cells around a wide disc
CoarseStep == 1000

\* stop_after_attempt(3)
STOP_AFTER_ATTEMPT == 3

\* command lines of the model
ArgLatitudes == {NoArg, Arg(2000), Arg(8000)}
ArgLongitudes == {NoArg, Arg(0)}
ArgSmallRadii == {NoArg, Arg(-100), Arg(0)}
ArgRadii == ArgSmallRadii \cup {Arg(140000), Arg(200000)}
ApiKeys == {NoKey, "KEY"}

\* identifiers the geocoding service answers with, as digit strings:
\* "160010101001000", "160010101001001", and the short "16001"
Fips1 == <<1, 6, 0, 0, 1, 0, 1, 0, 1, 0, 0, 1, 0, 0, 0>>
Fips2 == <<1, 6, 0, 0, 1, 0, 1, 0, 1, 0, 0, 1, 0, 0, 1>>
FipsShort == <<1, 6, 0, 0, 1>>
ResolverValues == {Fips1, Fips2, FipsShort}

\* bodies the statistics service answers with: rows of cells, a cell a string
\* of characters.  [["P1_001N","block"],["42","1000"]], the same with "7",
\* a body without data row, and one whose value is "N/A"
HeaderRow == << <<"P", "1">>, <<"b">> >>
Response42 == << HeaderRow, << <<"4", "2">>, <<"1", "0", "0", "0">> >> >>
Response7 == << HeaderRow, << <<"7">>, <<"1", "0", "0", "1">> >> >>
ResponseNoRow == << HeaderRow >>
ResponseNA == << HeaderRow, << <<"N", "/", "A">>, <<"1", "0", "0", "0">> >> >>
CensusResponses == {Response42, Response7, ResponseNoRow, ResponseNA}

----------------------------------------------------------------------------
(* Python helpers                                                          *)

Min(a, b) == IF a <= b THEN a ELSE b

\* s[i:j] of a Python string, 0 <= i <= j
PySlice(s, i, j) ==
    IF i >= Min(j, Len(s)) THEN <<>> ELSE SubSeq(s, i + 1, Min(j, Len(s)))

DigitValue == [c \in {"0", "1", "2", "3", "4", "5", "6", "7", "8", "9"} |->
                 CASE c = "0" -> 0 [] c = "1" -> 1 [] c = "2" -> 2 [] c = "3" -> 3
                   [] c = "4" -> 4 [] c = "5" -> 5 [] c = "6" -> 6 [] c = "7" -> 7
                   [] c = "8" -> 8 [] c = "9" -> 9]

\* int(cell) succeeds on a non-empty string of decimal digits
IsNumeral(cell) ==
    Len(cell) > 0 /\ \A i \in 1..Len(cell) : cell[i] \in DOMAIN DigitValue

RECURSIVE IntOf(_)
IntOf(cell) ==
    IF cell = <<>> THEN 0
    ELSE 10 * IntOf(SubSeq(cell, 1, Len(cell) - 1)) + DigitValue[cell[Len(cell)]]

\* the exception of int(population_response[1][0]), or NoError
ParseError(response) ==
    IF Len(response) < 2 THEN "IndexError"
    ELSE IF Len(response[2]) < 1 THEN "IndexError"
    ELSE IF ~IsNumeral(response[2][1]) THEN "ValueError"
    ELSE NoError

\* a list that holds every identifier twice, as one built without the set would
ListOfSetRepeated(s) ==
    {q \o q : q \in {r \in [1..Cardinality(s) -> s] :
                        \A i, j \in 1..Cardinality(s) : r[i] = r[j] => i = j}}

\* the orders list(block_fips_set) may come in
ListOfSet(s) ==
    {q \in [1..Cardinality(s) -> s] : \A i, j \in 1..Cardinality(s) : q[i] = q[j] => i = j}

----------------------------------------------------------------------------
(* get_population_for_block_fips: the sub-fields and the query             *)

state_fips(block_fips) == PySlice(block_fips, 0, 2)
county_fips(block_fips) == PySlice(block_fips, 2, 5)
tract_code(block_fips) == PySlice(block_fips, 5, 11)
block_code(block_fips) == PySlice(block_fips, 11, Len(block_fips))

\* params as call_us_census_api sends them: the key only if api_key is set
census_params(block_fips, key) ==
    [get       |-> "P1_001N",
     for_block |-> block_code(block_fips),
     in_state  |-> state_fips(block_fips),
     in_county |-> county_fips(block_fips),
     in_tract  |-> tract_code(block_fips),
     key       |-> key]

----------------------------------------------------------------------------
(* The retry decorator and exceptions                                      *)

\* a retry policy that allows one attempt more
ExhaustedLate(n) == n > STOP_AFTER_ATTEMPT

\* tenacity gives up after this attempt number if the attempt failed; the
\* waits between attempts (wait_exponential) change no state and are left out
Exhausted(n) == n >= STOP_AFTER_ATTEMPT

\* an exception caught around the loop body: the loop goes on with the next item
RaiseSkipsItem(e) ==
    IF pc = "resolve"
    THEN /\ idx' = idx + 1 /\ attempt' = 0 /\ UNCHANGED <<pc, error, k>>
    ELSE IF pc = "aggregate"
    THEN /\ k' = k + 1 /\ attempt' = 0 /\ UNCHANGED <<pc, error, idx>>
    ELSE /\ pc' = "aborted" /\ error' = e /\ UNCHANGED <<idx, k, attempt>>

\* an exception nothing catches: run() ends, loop positions stay
Raise(e) ==
    /\ pc' = "aborted"
    /\ error' = e
    /\ UNCHANGED <<idx, k, attempt>>

----------------------------------------------------------------------------
(* run()                                                                   *)

Init ==
    /\ args \in [lat : ArgLatitudes, lon : ArgLongitudes, radius : ArgRadii]
    /\ api_key \in ApiKeys
    /\ step \in {DefaultStep, CoarseStep}
    /\ (step = DefaultStep => args.radius \in ArgSmallRadii)
    /\ pc = "start"
    /\ latitude = 0 /\ longitude = 0 /\ radius = 0
    /\ lat = 0 /\ lon = 0
    /\ dist = NoDist
    /\ points = <<>>
    /\ idx = 1
    /\ attempt = 0
    /\ block_fips_set = {}
    /\ block_fips_list = <<>>
    /\ k = 1
    /\ total_population = 0
    /\ stdout = <<>>
    /\ error = NoError
    /\ last_query = NoQuery
    /\ last_call = NoCall
    /\ exhausted = {}
    /\ pop_log = <<>>

lat_range == RDiv(radius, MILES_PER_DEGREE)
lon_range == RDiv(radius * S, cos(radians(latitude)) * MILES_PER_DEGREE)
lat_min == latitude - lat_range
lat_max == latitude + lat_range
lon_min == longitude - lon_range
lon_max == longitude + lon_range

\* a loop variable that is never stepped
advance_stuck(x, s) == x

\* lat += step, lon += step
advance(x, s) == x + s

\* run() reads its arguments and enters generate_points_within_radius
ParseArgs ==
    /\ pc = "start"
    /\ latitude' = IF args.lat.given THEN args.lat.v ELSE COORDINATE_LATITUDE
    /\ longitude' = IF args.lon.given THEN args.lon.v ELSE COORDINATE_LONGITUDE
    /\ radius' = IF args.radius.given THEN args.radius.v ELSE RADIUS
    /\ pc' = "bounds"
    /\ UNCHANGED <<args, api_key, step, lat, lon, dist, points, idx, attempt,
                   block_fips_set, block_fips_list, k, total_population, stdout,
                   error, last_query, last_call, exhausted, pop_log>>

\* the bounding box; lat = lat_min
GridBounds ==
    /\ pc = "bounds"
    /\ lat' = lat_min
    /\ pc' = "lat_loop"
    /\ UNCHANGED <<args, api_key, step, latitude, longitude, radius, lon, dist, points,
                   idx, attempt, block_fips_set, block_fips_list, k,
                   total_population, stdout, error, last_query, last_call,
                   exhausted, pop_log>>

\* while lat <= lat_max: lon = lon_min; after the loop, return points
LatLoop ==
    /\ pc = "lat_loop"
    /\ IF lat <= lat_max
       THEN /\ lon' = lon_min
            /\ pc' = "lon_loop"
       ELSE /\ lon' = lon
            /\ pc' = "resolve"
    /\ UNCHANGED <<args, api_key, step, latitude, longitude, radius, lat, dist,
                   points, idx, attempt, block_fips_set, block_fips_list, k,
                   total_population, stdout, error, last_query, last_call,
                   exhausted, pop_log>>

\* while lon <= lon_max: keep the point if within the radius; lon += step.
\* After the loop, lat += step
LonLoop ==
    /\ pc = "lon_loop"
    /\ IF lon <= lon_max
       THEN IF MathDomainError(haversine_a(latitude, longitude, lat, lon))
            THEN /\ Raise("ValueError")
                 /\ UNCHANGED <<lat, lon, dist, points>>
            ELSE LET d == haversine_distance(latitude, longitude, lat, lon)
                 IN  /\ dist' = [lat |-> lat, lon |-> lon, d |-> d]
                     /\ points' = IF d <= radius
                                  THEN Append(points, <<lat, lon>>)
                                  ELSE points
                     /\ lon' = advance(lon, step)
                     /\ UNCHANGED <<pc, error, idx, k, attempt, lat>>
       ELSE /\ lat' = advance(lat, step)
            /\ pc' = "lat_loop"
            /\ UNCHANGED <<error, idx, k, attempt, lon, dist, points>>
    /\ UNCHANGED <<args, api_key, step, latitude, longitude, radius,
                   block_fips_set, block_fips_list, total_population, stdout,
                   last_query, last_call, exhausted, pop_log>>

----------------------------------------------------------------------------
(* The collaborators and the two loops of the pipeline                     *)

\* what one HTTP exchange comes to: the request failed (network error, error
\* status, a body json() or the key lookup rejects), or a body came back
RequestFailure == [failed |-> TRUE, body |-> <<>>]
ResolverOutcomes == {RequestFailure} \cup {[failed |-> FALSE, body |-> f] : f \in ResolverValues}
CensusOutcomes == {RequestFailure} \cup {[failed |-> FALSE, body |-> r] : r \in CensusResponses}

\* the attempt raises inside the retried function: get_census_block_fips,
\* call_us_census_api
resolver_attempt_fails(o) == o.failed

\* a retried function that also parses the body, so that a parse error retries
census_attempt_fails_on_shape(o) == o.failed \/ ParseError(o.body) # NoError

census_attempt_fails(o) == o.failed

\* a loop that stops one element short
for_has_next_short(i, seq) == i < Len(seq)

\* for x in seq: is there an element at 1-based position i
for_has_next(i, seq) == i <= Len(seq)

\* an add that drops identifiers that are not 15 characters long
set_add_checked(s, fips) == IF Len(fips) = 15 THEN s \cup {fips} ELSE s

\* block_fips_set.add(fips)
set_add(s, fips) == s \cup {fips}

\* one attempt of get_census_block_fips(lat, lon) for points[idx], inside the
\* for loop of get_unique_blocks_within_radius
ResolverAttempt ==
    /\ pc = "resolve"
    /\ for_has_next(idx, points)
    /\ \E o \in ResolverOutcomes :
         LET n == attempt + 1
         IN  /\ last_call' = [fn |-> "get_census_block_fips", attempts |-> n,
                              ok |-> ~resolver_attempt_fails(o), value |-> o.body]
             /\ IF resolver_attempt_fails(o)
                THEN /\ UNCHANGED block_fips_set
                     /\ IF Exhausted(n)
                        THEN /\ Raise("RetryError")
                             /\ exhausted' = exhausted \cup {"get_census_block_fips"}
                        ELSE /\ attempt' = n
                             /\ UNCHANGED <<pc, error, idx, k, exhausted>>
                ELSE /\ block_fips_set' = set_add(block_fips_set, o.body)
                     /\ idx' = idx + 1
                     /\ attempt' = 0
                     /\ UNCHANGED <<pc, error, k, exhausted>>
    /\ UNCHANGED <<args, api_key, step, latitude, longitude, radius, lat, lon, dist,
                   points, block_fips_list, total_population, stdout, last_query,
                   pop_log>>

\* return list(block_fips_set); run() prints the number of blocks
ReturnBlocks ==
    /\ pc = "resolve"
    /\ ~for_has_next(idx, points)
    /\ block_fips_list' \in ListOfSet(block_fips_set)
    /\ stdout' = Append(stdout, [line |-> "Found unique blocks",
                                 n |-> Len(block_fips_list'), radius |-> radius])
    /\ pc' = "aggregate"
    /\ UNCHANGED <<args, api_key, step, latitude, longitude, radius, lat, lon, dist,
                   points, idx, attempt, block_fips_set, k, total_population,
                   error, last_query, last_call, exhausted, pop_log>>

\* one attempt of call_us_census_api for block_fips_list[k], and, once it
\* returns, the rest of get_population_for_block_fips and of the loop body
CensusAttempt ==
    /\ pc = "aggregate"
    /\ for_has_next(k, block_fips_list)
    /\ last_query' = census_params(block_fips_list[k], api_key)
    /\ \E o \in CensusOutcomes :
         LET n == attempt + 1
         IN  /\ last_call' = [fn |-> "call_us_census_api", attempts |-> n,
                              ok |-> ~census_attempt_fails(o), value |-> o.body]
             /\ IF census_attempt_fails(o)
                THEN /\ UNCHANGED <<total_population, pop_log>>
                     /\ IF Exhausted(n)
                        THEN /\ Raise("RetryError")
                             /\ exhausted' = exhausted \cup {"call_us_census_api"}
                        ELSE /\ attempt' = n
                             /\ UNCHANGED <<pc, error, idx, k, exhausted>>
                ELSE IF ParseError(o.body) # NoError
                THEN /\ Raise(ParseError(o.body))
                     /\ UNCHANGED <<total_population, pop_log, exhausted>>
                ELSE LET pop == IntOf(o.body[2][1])
                     IN  /\ total_population' = total_population + pop
                         /\ pop_log' = Append(pop_log, <<block_fips_list[k], pop>>)
                         /\ k' = k + 1
                         /\ attempt' = 0
                         /\ UNCHANGED <<pc, error, idx, exhausted>>
    /\ UNCHANGED <<args, api_key, step, latitude, longitude, radius, lat, lon, dist,
                   points, block_fips_set, block_fips_list, stdout>>

\* after the loop, run() prints the total
PrintTotal ==
    /\ pc = "aggregate"
    /\ ~for_has_next(k, block_fips_list)
    /\ stdout' = Append(stdout, [line |-> "Total population",
                                 n |-> total_population, radius |-> radius])
    /\ pc' = "done"
    /\ UNCHANGED <<args, api_key, step, latitude, longitude, radius, lat, lon, dist,
                   points, idx, attempt, block_fips_set, block_fips_list, k,
                   total_population, error, last_query, last_call, exhausted,
                   pop_log>>

Next ==
    \/ ParseArgs
    \/ GridBounds
    \/ LatLoop
    \/ LonLoop
    \/ ResolverAttempt
    \/ ReturnBlocks
    \/ CensusAttempt
    \/ PrintTotal

Spec == Init /\ [][Next]_vars

\* run() is one sequential thread that is never suspended: it keeps taking steps
FairSpec == Spec /\ WF_vars(Next)

----------------------------------------------------------------------------
(* Properties                                                              *)

CountPrinted == \E i \in 1..Len(stdout) : stdout[i].line = "Found unique blocks"
TotalPrinted == \E i \in 1..Len(stdout) : stdout[i].line = "Total population"
Terminated == pc \in {"done", "aborted"}

RECURSIVE SumPops(_)
SumPops(log) == IF log = <<>> THEN 0 ELSE log[1][2] + SumPops(Tail(log))

\* the last attempt brought back a body of the statistics service that
\* int(population_response[1][0]) rejects
MalformedBodyCameBack ==
    /\ last_call.fn = "call_us_census_api"
    /\ last_call.value # <<>>
    /\ ParseError(last_call.value) # NoError

\* C1: retry policy of both retried functions.  An attempt that succeeds,
\* the third one included, hands its result to the caller (the identifier
\* enters the block set; the body is parsed and summed, or its parse error
\* ends the run); a failed attempt before the third is followed by a retry of
\* the same item; a failed third attempt ends the run with RetryError, and
\* RetryError arises in no other way; no call makes a fourth attempt.
C1_RetryPolicy ==
    /\ last_call.attempts <= 3
    /\ (last_call.fn = "get_census_block_fips" /\ last_call.ok)
          => last_call.value \in block_fips_set
    /\ (last_call.fn = "call_us_census_api" /\ last_call.ok)
          => IF ParseError(last_call.value) = NoError
             THEN /\ pop_log # <<>>
                  /\ pop_log[Len(pop_log)][2] = IntOf(last_call.value[2][1])
                  /\ error = NoError
             ELSE error = ParseError(last_call.value)
    /\ (~last_call.ok /\ last_call.attempts < 3)
          => /\ pc \in {"resolve", "aggregate"}
             /\ attempt = last_call.attempts
             /\ error = NoError
    /\ (~last_call.ok /\ last_call.attempts = 3)
          => pc = "aborted" /\ error = "RetryError"
    /\ error = "RetryError" => (~last_call.ok /\ last_call.attempts = 3)

\* C1 witness: the statistics query of the second block failed twice and
\* succeeded on its third attempt with population 42, which was summed
C1_ThirdAttemptSucceeds ==
    /\ last_call = [fn |-> "call_us_census_api", attempts |-> 3, ok |-> TRUE,
                    value |-> Response42]
    /\ Len(pop_log) = 2
    /\ pop_log[2][2] = 42

\* C2: once the statistics query of a block has run out of attempts, the run
\* is aborted and no total is printed; a printed total is the sum of one
\* parsed reply per block of the list, in the order of the list.
C2_NoPartialTotal ==
    /\ "call_us_census_api" \in exhausted => (pc = "aborted" /\ ~TotalPrinted)
    /\ TotalPrinted =>
          /\ exhausted = {}
          /\ Len(pop_log) = Len(block_fips_list)
          /\ \A i \in 1..Len(pop_log) : pop_log[i][1] = block_fips_list[i]
          /\ stdout[Len(stdout)].n = SumPops(pop_log)

\* C2 witness: the query of the third of three blocks exhausts its attempts
\* after the first two blocks were summed
C2_LaterBlockExhausts ==
    /\ "call_us_census_api" \in exhausted
    /\ Len(block_fips_list) = 3
    /\ k = 3
    /\ total_population > 0

\* C3: once the resolution of a sample point has run out of attempts, the run
\* is aborted with RetryError: no block list was returned, nothing was
\* printed and no statistics query was sent.
C3_ResolverAbort ==
    "get_census_block_fips" \in exhausted =>
        /\ pc = "aborted"
        /\ error = "RetryError"
        /\ block_fips_list = <<>>
        /\ stdout = <<>>
        /\ last_query = NoQuery
        /\ pop_log = <<>>

\* C3 witness: the resolution of the third point exhausts its attempts after
\* two points were resolved
C3_LaterPointExhausts ==
    /\ "get_census_block_fips" \in exhausted
    /\ idx = 3
    /\ block_fips_set # {}

\* C4, as claimed: for a radius <= 0, generate_points_within_radius returns
\* exactly the centre.
C4_NonPositiveRadiusYieldsCenter ==
    (pc = "resolve" /\ radius <= 0) => points = << <<latitude, longitude>> >>

\* C5, as claimed: the distance haversine_distance computes from the centre to
\* the centre is 0.
C5_SelfDistanceZero ==
    (dist.d # -1 /\ dist.lat = latitude /\ dist.lon = longitude) => dist.d = 0

\* C6, as claimed: a statistics body of the wrong shape counts as a failed
\* attempt, so the run that such a body ends has made 3 attempts of the query.
C6_MalformedBodyRetried ==
    (MalformedBodyCameBack /\ pc = "aborted") => last_call.attempts = 3

\* C6, amended: a statistics body of the wrong shape is a successful attempt
\* of the retried call; its parse error (IndexError, ValueError) is raised
\* outside the retry and ends the run at once, with no further attempt and no
\* total printed.
C6_MalformedBodyAborts ==
    MalformedBodyCameBack =>
        /\ last_call.ok
        /\ pc = "aborted"
        /\ error = ParseError(last_call.value)
        /\ "call_us_census_api" \notin exhausted
        /\ ~TotalPrinted

\* C6 witness: the first attempt for the first block brings a body without
\* data row, and the run ends with IndexError
C6_FirstBodyWithoutRow ==
    /\ last_call = [fn |-> "call_us_census_api", attempts |-> 1, ok |-> TRUE,
                    value |-> ResponseNoRow]
    /\ error = "IndexError"
    /\ k = 1

\* C7, as claimed: an identifier that is not 15 characters long never enters
\* the block set and no statistics query is built from one.
C7_MalformedIdentifierRejected ==
    /\ \A f \in block_fips_set : Len(f) = 15
    /\ last_query # NoQuery =>
          Len(last_query.in_state \o last_query.in_county
              \o last_query.in_tract \o last_query.for_block) = 15

\* C7, amended: an identifier of any length is taken as the resolver returns
\* it: it enters the block set and the list, and its statistics query holds
\* the slices [0:2], [2:5], [5:11], [11:] of it, which are shorter or empty
\* for a short identifier and together give back the identifier.
C7_IdentifierTakenAsIs ==
    /\ (last_call.fn = "get_census_block_fips" /\ last_call.ok)
          => last_call.value \in block_fips_set
    /\ pc \in {"aggregate", "done"} =>
          \A f \in ResolverValues :
              f \in block_fips_set <=> \E i \in 1..Len(block_fips_list) : block_fips_list[i] = f
    /\ last_query # NoQuery =>
          \E i \in 1..Len(block_fips_list) :
              LET f == block_fips_list[i]
              IN  /\ i \in {k - 1, k}
                  /\ last_query.in_state \o last_query.in_county
                        \o last_query.in_tract \o last_query.for_block = f
                  /\ Len(last_query.in_state) = Min(2, Len(f))
                  /\ Len(last_query.in_state \o last_query.in_county) = Min(5, Len(f))
                  /\ Len(last_query.in_state \o last_query.in_county
                         \o last_query.in_tract) = Min(11, Len(f))

\* C7 witness: the run ended with a total that includes the population 7
\* answered to the query built from the 5-character identifier
C7_ShortIdentifierQueried ==
    /\ pc = "done"
    /\ \E i \in 1..Len(pop_log) : pop_log[i] = <<FipsShort, 7>>
    /\ last_query.for_block = <<>>
    /\ last_query.in_tract = <<>>
    /\ last_query.in_county = <<0, 0, 1>>

\* C8: the block set is no larger than the number of points resolved, the
\* list holds each identifier of the set once, and a finished run has parsed
\* one reply per identifier and printed the sum of these replies.
C8_Dedup ==
    /\ Cardinality(block_fips_set) <= idx - 1
    /\ idx - 1 <= Len(points)
    /\ pc \in {"aggregate", "done"} =>
          /\ Len(block_fips_list) = Cardinality(block_fips_set)
          /\ \A f \in block_fips_set :
                Cardinality({i \in 1..Len(block_fips_list) : block_fips_list[i] = f}) = 1
    /\ pc = "done" =>
          /\ \A f \in block_fips_set :
                Cardinality({i \in 1..Len(pop_log) : pop_log[i][1] = f}) = 1
          /\ Len(pop_log) = Cardinality(block_fips_set)
          /\ total_population = SumPops(pop_log)
          /\ stdout[2].n = total_population
          /\ stdout[1].n = Cardinality(block_fips_set)

\* C8 witness: eight points resolved to one identifier; one block, total 42
C8_ManyPointsOneBlock ==
    /\ pc = "done"
    /\ Len(points) = 8
    /\ block_fips_set = {Fips1}
    /\ pop_log = << <<Fips1, 42>> >>
    /\ stdout[1].n = 1
    /\ stdout[2].n = 42

\* C9: stage order.  A grid step happens before any resolver attempt; a
\* resolver attempt happens before anything is printed and before any
\* statistics query; the block count is printed once every point is resolved;
\* a statistics attempt happens after the block count was printed, and the
\* total is printed last.
C9_StageOrder ==
    [][ /\ (GridBounds \/ LatLoop \/ LonLoop) => (last_call = NoCall /\ stdout = <<>>)
        /\ ResolverAttempt => (stdout = <<>> /\ last_query = NoQuery /\ pop_log = <<>>)
        /\ ReturnBlocks => (idx = Len(points) + 1 /\ stdout = <<>> /\ last_query = NoQuery)
        /\ CensusAttempt => (Len(stdout) = 1 /\ CountPrinted /\ idx = Len(points) + 1)
        /\ PrintTotal => (Len(stdout) = 1 /\ CountPrinted /\ k = Len(block_fips_list) + 1)
      ]_vars

\* C9 witness: a statistics query is under way after eight points were
\* resolved, the last of them on its third attempt, and the count was printed
C9_AggregatingAfterResolving ==
    /\ pc = "aggregate"
    /\ Len(points) = 8
    /\ idx = 9
    /\ CountPrinted
    /\ last_query # NoQuery
    /\ last_call.fn = "call_us_census_api"
    /\ last_call.attempts = 2

====
